---- MODULE Spec2Model ----
(***************************************************************************)
(* Model of the tile polyline analyzer (package tile_analyzer):            *)
(*   geometry.py   compute_px_per_mm, mm_to_px, segment_lengths_mm         *)
(*   threshold.py  binarize_line                                           *)
(*   analyzer.py   _draw_segment_mask, analyze_polyline                    *)
(*   camera.py     Camera (open, capture_frame, release, context manager)  *)
(*   main.py       main                                                    *)
(*                                                                         *)
(* Real numbers are exact rationals <<n, d>> with d > 0 in lowest terms;   *)
(* float("inf") is the pair <<1, 0>>.  Millimetre coordinates are drawn    *)
(* from integer points whose pairwise distances are integers, so that the  *)
(* square root of segment_lengths_mm is exact.                             *)
(***************************************************************************)
EXTENDS Integers, Sequences, FiniteSets, TLC

VARIABLES
    pc,               \* control point of the running client / main()
    driver,           \* who runs: "call", "main", "client", "geo" or "bin"
    tile_width_px,    \* args.tile_width_px
    tile_width_mm,    \* args.tile_width_mm
    origin_px,        \* origin_px
    px_per_mm,        \* px_per_mm
    points_mm,        \* points_mm
    points_px,        \* points_px
    min_density,      \* min_density
    frame,            \* the captured BGR frame
    line_mask,        \* the ink mask handed to analyze_polyline
    threshold_info,   \* ThresholdResult
    lengths_mm,       \* analyze_polyline: lengths_mm
    idx,              \* analyze_polyline: number of loop iterations done
    segment_reports,  \* analyze_polyline: segment_reports
    weighted_density, \* analyze_polyline: weighted_density
    total_length,     \* analyze_polyline: total_length
    report,           \* the PolylineReport returned, or None
    segment_mask,     \* the most recently drawn segment mask
    raster_ops,       \* how many raster operations of each kind have run
    par_results,      \* fan-out evaluation: per-segment results by index
    par_report,       \* fan-in: the report aggregated from par_results
    use_manual_exposure, \* Camera.use_manual_exposure
    picam2,           \* Camera._picam2: None or <<k>>, the k-th device created
    devices,          \* every Picamera2 object created so far
    last_call,        \* the most recent call made on the Camera object
    calls             \* number of camera calls made by the client

vars == <<pc, driver, tile_width_px, tile_width_mm, origin_px, px_per_mm,
          points_mm, points_px, min_density, frame, line_mask, threshold_info,
          lengths_mm, idx, segment_reports, weighted_density, total_length,
          report, segment_mask, raster_ops, par_results, par_report,
          use_manual_exposure, picam2, devices, last_call, calls>>

\* Python's None, and every value not yet computed
None == <<>>

-----------------------------------------------------------------------------
(* Bounds of the model.                                                    *)

\* longest point sequence handed to analyze_polyline
MaxPoints == 3
\* raster width in pixels
Width == 4
\* raster height in pixels
Height == 5
\* number of pixels of the synthetic images given to binarize_line
BinPixels == 10
\* number of camera calls made by a free client
MaxCalls == 5
\* largest millimetre coordinate given to mm_to_px
MaxCoordMM == 3

-----------------------------------------------------------------------------
(* Exact rational arithmetic standing in for Python floats.                *)

RECURSIVE GCD(_, _)
GCD(a, b) == IF b = 0 THEN a ELSE GCD(b, a % b)

Abs(a) == IF a < 0 THEN -a ELSE a

Norm(n, d) ==
    LET g == GCD(Abs(n), Abs(d))
        s == IF d < 0 THEN -1 ELSE 1
    IN  <<(s * n) \div g, (s * d) \div g>>

Rat(n) == <<n, 1>>
Inf == <<1, 0>>
Zero == <<0, 1>>

IsFinite(r) == r[2] # 0

RatAdd(a, b) == Norm(a[1] * b[2] + b[1] * a[2], a[2] * b[2])
RatSub(a, b) == Norm(a[1] * b[2] - b[1] * a[2], a[2] * b[2])
RatMul(a, b) == Norm(a[1] * b[1], a[2] * b[2])
\* a / b for finite a and b # 0
RatDiv(a, b) == Norm(a[1] * b[2], a[2] * b[1])

\* a < b, a <= b, a >= b on finite rationals and +inf
RatLT(a, b) ==
    IF ~IsFinite(a) THEN FALSE
    ELSE IF ~IsFinite(b) THEN TRUE
    ELSE a[1] * b[2] < b[1] * a[2]
RatLE(a, b) == a = b \/ RatLT(a, b)
RatGE(a, b) == RatLE(b, a)

\* Python round(): nearest integer, ties to the even one
PyRound(r) ==
    LET q   == r[1] \div r[2]
        rem == r[1] - q * r[2]
    IN  IF 2 * rem < r[2] THEN q
        ELSE IF 2 * rem > r[2] THEN q + 1
        ELSE IF q % 2 = 0 THEN q ELSE q + 1

\* x ** 0.5 on the squares that the modelled inputs produce
Sqrt(n) == CHOOSE r \in 0..n : r * r <= n /\ (r + 1) * (r + 1) > n

Min(a, b) == IF a < b THEN a ELSE b

-----------------------------------------------------------------------------
(* geometry.py                                                             *)

compute_px_per_mm_negative_only(px_w, mm_w) ==
    IF RatLT(mm_w, Zero) THEN [raised |-> "ValueError", value |-> None]
    ELSE IF mm_w = Zero THEN [raised |-> "ZeroDivisionError", value |-> None]
    ELSE [raised |-> "no", value |-> RatDiv(px_w, mm_w)]

\* raised names the exception raised, "no" when the scale is returned
compute_px_per_mm(px_w, mm_w) ==
    IF RatLE(mm_w, Zero) THEN [raised |-> "ValueError", value |-> None]
    ELSE [raised |-> "no", value |-> RatDiv(px_w, mm_w)]

mm_to_px_point_noflip(p, scale, origin) ==
    <<PyRound(RatAdd(Rat(origin[1]), RatMul(Rat(p[1]), scale))),
      PyRound(RatAdd(Rat(origin[2]), RatMul(Rat(p[2]), scale)))>>

\* one iteration of the loop of mm_to_px
mm_to_px_point(p, scale, origin) ==
    <<PyRound(RatAdd(Rat(origin[1]), RatMul(Rat(p[1]), scale))),
      PyRound(RatSub(Rat(origin[2]), RatMul(Rat(p[2]), scale)))>>

mm_to_px(pts, scale, origin) ==
    [i \in 1..Len(pts) |-> mm_to_px_point(pts[i], scale, origin)]

segment_length_swapped(p0, p1) ==
    LET dx == p1[1] - p0[1]
        dy == p1[1] - p0[2]
    IN  Rat(Sqrt(dx * dx + dy * dy))

\* one iteration of the loop of segment_lengths_mm
segment_length(p0, p1) ==
    LET dx == p1[1] - p0[1]
        dy == p1[2] - p0[2]
    IN  Rat(Sqrt(dx * dx + dy * dy))

segment_lengths_mm(pts) ==
    IF Len(pts) < 2 THEN <<>>
    ELSE [i \in 1..(Len(pts) - 1) |-> segment_length(pts[i], pts[i + 1])]

-----------------------------------------------------------------------------
(* Rasters: functions from pixel positions to 8-bit values (or BGR         *)
(* triples for a colour frame).  A shape is <<height, width>>; the pixel   *)
(* <<x, y>> has column x and row y.                                        *)

PixelsOf(shape) == (0..(shape[2] - 1)) \X (0..(shape[1] - 1))

Range(f) == {f[p] : p \in DOMAIN f}

\* cv2.cvtColor(_, COLOR_BGR2GRAY) on 8-bit pixels (fixed point, 14 bits)
cvtColor_BGR2GRAY(img) ==
    [p \in DOMAIN img |->
        (img[p][1] * 1868 + img[p][2] * 9617 + img[p][3] * 4899 + 8192) \div 16384]

\* the k-th smallest value (1-based) of a raster
KthSmallest(img, k) ==
    CHOOSE v \in Range(img) :
        /\ Cardinality({p \in DOMAIN img : img[p] <= v}) >= k
        /\ Cardinality({p \in DOMAIN img : img[p] < v}) < k

\* np.median: the middle value, or the mean of the two middle values
np_median(img) ==
    LET n == Cardinality(DOMAIN img)
    IN  IF n % 2 = 1 THEN Rat(KthSmallest(img, (n + 1) \div 2))
        ELSE Norm(KthSmallest(img, n \div 2) + KthSmallest(img, n \div 2 + 1), 2)

\* cv2.threshold(_, thresh, 255, THRESH_BINARY) on 8-bit pixels: the
\* threshold is floored and a pixel is set when strictly above it
threshold_binary(img, thresh) ==
    [p \in DOMAIN img |-> IF img[p] > thresh[1] \div thresh[2] THEN 255 ELSE 0]

np_count_nonzero(img) == Cardinality({p \in DOMAIN img : img[p] # 0})

bitwise_not(img) == [p \in DOMAIN img |-> 255 - img[p]]

\* cv2.bitwise_and of an 8-bit raster with a raster of 0 / 255 values
bitwise_and(a, b) == [p \in DOMAIN a |-> IF b[p] = 255 THEN a[p] ELSE 0]

np_zeros(shape) == [p \in PixelsOf(shape) |-> 0]

-----------------------------------------------------------------------------
(* threshold.py                                                            *)

binarize_line(frame_bgr) ==
    LET gray         == cvtColor_BGR2GRAY(frame_bgr)
        median_value == np_median(gray)
        binary       == threshold_binary(gray, median_value)
        white_pixels == np_count_nonzero(binary)
        total_pixels == Cardinality(DOMAIN binary)
        white_ratio  == IF total_pixels # 0 THEN Norm(white_pixels, total_pixels)
                        ELSE Zero
        dark         == RatGE(white_ratio, <<1, 2>>)
    IN  [line_mask |-> IF dark THEN bitwise_not(binary) ELSE binary,
         result    |-> [threshold_value |-> median_value,
                        line_color      |-> IF dark THEN "dark" ELSE "light",
                        white_ratio     |-> white_ratio]]

-----------------------------------------------------------------------------
(* analyzer.py: rasterisation                                              *)

\* the steps of cv::LineIterator (8-connected): k counts steps along the
\* major axis, b the steps taken along the minor axis, M and m are the
\* major and minor extents
RECURSIVE LineWalk(_, _, _, _, _)
LineWalk(k, err, b, M, m) ==
    IF k > M THEN {}
    ELSE {<<k, b>>} \cup
         LineWalk(k + 1,
                  err - 2 * m + (IF err < 0 THEN 2 * M ELSE 0),
                  IF err < 0 THEN b + 1 ELSE b, M, m)

\* the pixels cv2.line visits between two points, drawn left to right
LinePixels(start, end) ==
    LET p0    == IF end[1] < start[1] THEN end ELSE start
        p1    == IF end[1] < start[1] THEN start ELSE end
        dx    == p1[1] - p0[1]
        dy    == Abs(p1[2] - p0[2])
        ystep == IF p1[2] < p0[2] THEN -1 ELSE 1
        steep == dy > dx
        offs  == IF steep THEN LineWalk(0, dy - 2 * dx, 0, dy, dx)
                 ELSE LineWalk(0, dx - 2 * dy, 0, dx, dy)
    IN  {IF steep THEN <<p0[1] + o[2], p0[2] + ystep * o[1]>>
         ELSE <<p0[1] + o[1], p0[2] + ystep * o[2]>> : o \in offs}

\* cv2.line(mask, start, end, 255, 1); the end points of the modelled inputs
\* lie inside the raster, so the line is never clipped
cv2_line(mask, start, end) ==
    LET line == LinePixels(start, end)
    IN  [p \in DOMAIN mask |-> IF p \in line THEN 255 ELSE mask[p]]

draw_on_previous_mask(shape, start, end) ==
    cv2_line(IF segment_mask = None THEN np_zeros(shape) ELSE segment_mask,
             start, end)

draw_segment_mask(shape, start, end) == cv2_line(np_zeros(shape), start, end)

-----------------------------------------------------------------------------
(* analyzer.py: analyze_polyline                                           *)

\* line_mask.shape[:2]
ShapeOf(img) ==
    <<1 + (CHOOSE y \in {p[2] : p \in DOMAIN img} : \A p \in DOMAIN img : p[2] <= y),
      1 + (CHOOSE x \in {p[1] : p \in DOMAIN img} : \A p \in DOMAIN img : p[1] <= x)>>

validation_error_too_few_only(pmm, ppx) ==
    IF Len(ppx) < 2 THEN "too_few" ELSE "ok"

\* the three checks at the head of analyze_polyline: "ok" when all pass
validation_error(pmm, ppx) ==
    IF Len(pmm) # Len(ppx) THEN "length_mismatch"
    ELSE IF Len(ppx) < 2 THEN "too_few"
    ELSE IF Len(segment_lengths_mm(pmm)) # Len(ppx) - 1 THEN "inconsistent"
    ELSE "ok"

\* number of iterations of zip(zip(points_px[:-1], points_px[1:]), lengths_mm)
NumIterations(ppx, lengths) ==
    Min(IF Len(ppx) = 0 THEN 0 ELSE Len(ppx) - 1, Len(lengths))

segment_body_always_measured(mask, i, start, end, length) ==
    LET drawn   == draw_segment_mask(ShapeOf(mask), start, end)
        painted == bitwise_and(mask, drawn)
        pixels  == np_count_nonzero(painted)
    IN  [drawn  |-> drawn,
         report |-> [index |-> i, start_px |-> start, end_px |-> end,
                     length_mm |-> length, pixels_on_line |-> pixels,
                     density |-> IF RatLE(length, Zero) THEN Inf
                                 ELSE RatDiv(Rat(pixels), length)]]

\* the body of the loop up to the SegmentReport, for segment i (0-based);
\* drawn is the segment mask it allocates, None when it draws nothing
segment_body(mask, i, start, end, length) ==
    IF RatLE(length, Zero)
    THEN [drawn  |-> None,
          report |-> [index |-> i, start_px |-> start, end_px |-> end,
                      length_mm |-> length, pixels_on_line |-> 0,
                      density |-> Inf]]
    ELSE LET drawn   == draw_segment_mask(ShapeOf(mask), start, end)
             painted == bitwise_and(mask, drawn)
             pixels  == np_count_nonzero(painted)
         IN  [drawn  |-> drawn,
              report |-> [index |-> i, start_px |-> start, end_px |-> end,
                          length_mm |-> length, pixels_on_line |-> pixels,
                          density |-> RatDiv(Rat(pixels), length)]]

accumulate_unweighted(acc, rep) ==
    IF IsFinite(rep.density)
    THEN [weighted |-> RatAdd(acc.weighted, rep.density),
          total    |-> RatAdd(acc.total, Rat(1))]
    ELSE acc

\* the tail of the loop body: the running sums of the weighted average
accumulate(acc, rep) ==
    IF IsFinite(rep.density)
    THEN [weighted |-> RatAdd(acc.weighted, RatMul(rep.density, rep.length_mm)),
          total    |-> RatAdd(acc.total, rep.length_mm)]
    ELSE acc

average_of(acc) ==
    IF RatLT(Zero, acc.total) THEN RatDiv(acc.weighted, acc.total) ELSE Zero

verdict_of_le(reports, min) ==
    IF \A i \in 1..Len(reports) :
          RatLT(min, reports[i].density) \/ ~IsFinite(reports[i].density)
    THEN "pass" ELSE "fail"

verdict_of(reports, min) ==
    IF \A i \in 1..Len(reports) :
          RatGE(reports[i].density, min) \/ ~IsFinite(reports[i].density)
    THEN "pass" ELSE "fail"

NoRasterOps == [binarize |-> 0, draw |-> 0, bitand |-> 0, count |-> 0]

mainVars == <<driver, tile_width_px, tile_width_mm, origin_px, px_per_mm,
              frame, threshold_info>>
argVars  == <<points_mm, points_px, min_density, line_mask>>
loopVars == <<lengths_mm, idx, segment_reports, weighted_density, total_length>>
parVars  == <<par_results, par_report>>
camVars  == <<use_manual_exposure, picam2, devices, last_call, calls>>

\* analyze_polyline, entry: the validation checks and the loop's locals
AnalyzeValidate ==
    /\ pc = "analyze"
    /\ IF validation_error(points_mm, points_px) # "ok"
       THEN /\ pc' = "invalid"
            /\ UNCHANGED loopVars
       ELSE /\ pc' = "loop"
            /\ lengths_mm' = segment_lengths_mm(points_mm)
            /\ idx' = 0
            /\ segment_reports' = <<>>
            /\ weighted_density' = Zero
            /\ total_length' = Zero
    /\ UNCHANGED <<mainVars, argVars, report, segment_mask, raster_ops,
                   parVars, camVars>>

\* analyze_polyline, one iteration of the loop over the segments
LoopStep ==
    /\ pc = "loop"
    /\ idx < NumIterations(points_px, lengths_mm)
    /\ LET body == segment_body(line_mask, idx, points_px[idx + 1],
                                points_px[idx + 2], lengths_mm[idx + 1])
           acc  == accumulate([weighted |-> weighted_density,
                               total |-> total_length], body.report)
           work == IF body.drawn = None THEN 0 ELSE 1
       IN  /\ segment_reports' = Append(segment_reports, body.report)
           /\ weighted_density' = acc.weighted
           /\ total_length' = acc.total
           /\ segment_mask' = IF body.drawn = None THEN segment_mask
                              ELSE body.drawn
           /\ raster_ops' = [raster_ops EXCEPT !.draw = @ + work,
                                               !.bitand = @ + work,
                                               !.count = @ + work]
    /\ idx' = idx + 1
    /\ UNCHANGED <<pc, mainVars, argVars, lengths_mm, report, parVars, camVars>>

\* analyze_polyline, after the loop: the average, the verdict and the return
AnalyzeReturn ==
    /\ pc = "loop"
    /\ idx = NumIterations(points_px, lengths_mm)
    /\ report' = [segments |-> segment_reports,
                  average_density |-> average_of([weighted |-> weighted_density,
                                                  total |-> total_length]),
                  verdict |-> verdict_of(segment_reports, min_density)]
    /\ pc' = "returned"
    /\ UNCHANGED <<mainVars, argVars, loopVars, segment_mask, raster_ops,
                   parVars, camVars>>

-----------------------------------------------------------------------------
(* Fan-out / fan-in evaluation of the same loop body: after the call has   *)
(* returned, the segments are evaluated again one by one in any order and  *)
(* aggregated once every result exists.                                    *)

SegmentIndices == 0..(NumIterations(points_px, lengths_mm) - 1)

ParEval(i) ==
    /\ pc = "returned"
    /\ driver = "call"
    /\ i \in SegmentIndices \ DOMAIN par_results
    /\ LET body == segment_body(line_mask, i, points_px[i + 1],
                                points_px[i + 2], lengths_mm[i + 1])
       IN  /\ par_results' = [j \in DOMAIN par_results \cup {i} |->
                                 IF j = i THEN body.report ELSE par_results[j]]
           /\ segment_mask' = IF body.drawn = None THEN segment_mask
                              ELSE body.drawn
    /\ UNCHANGED <<pc, mainVars, argVars, loopVars, report, raster_ops,
                   par_report, camVars>>

RECURSIVE FoldAccumulate(_, _)
FoldAccumulate(reports, k) ==
    IF k = 0 THEN [weighted |-> Zero, total |-> Zero]
    ELSE accumulate(FoldAccumulate(reports, k - 1), reports[k])

ParJoin ==
    /\ pc = "returned"
    /\ driver = "call"
    /\ DOMAIN par_results = SegmentIndices
    /\ LET n       == Cardinality(SegmentIndices)
           ordered == [k \in 1..n |-> par_results[k - 1]]
       IN  par_report' = [segments |-> ordered,
                          average_density |-> average_of(FoldAccumulate(ordered, n)),
                          verdict |-> verdict_of(ordered, min_density)]
    /\ pc' = "joined"
    /\ UNCHANGED <<mainVars, argVars, loopVars, report, segment_mask,
                   raster_ops, par_results, camVars>>

-----------------------------------------------------------------------------
(* Inputs.                                                                 *)

SeqsUpTo(S, n) == UNION {[1..k -> S] : k \in 0..n}

\* millimetre points with integer pairwise distances (0, 3, 4, 5)
PointsMMSet == {<<0, 0>>, <<3, 0>>, <<3, 4>>}
\* pixel points inside the raster
PixelPointSet == {<<0, 4>>, <<3, 4>>, <<3, 0>>}

RasterShape == <<Height, Width>>

MaskEmpty == [p \in PixelsOf(RasterShape) |-> 0]
MaskFull  == [p \in PixelsOf(RasterShape) |-> 255]
\* ink on the bottom row except its last pixel, and on the top right pixel
MaskPartial ==
    [p \in PixelsOf(RasterShape) |->
        IF (p[2] = 4 /\ p[1] < 3) \/ p = <<3, 0>> THEN 255 ELSE 0]
Masks == {MaskEmpty, MaskFull, MaskPartial}

MinDensities == {Zero, <<1, 2>>, <<1, 1>>}

TileWidthsPx == {Rat(2)}
TileWidthsMM == {Rat(-1), Zero, Rat(2)}

\* where a caller of compute_px_per_mm ends when it raises: the ValueError
\* of the validation, or any other exception
RaisedPc(exc) == IF exc = "ValueError" THEN "invalid_scale" ELSE "crashed"

\* what every specification starts from, apart from its own inputs
Idle ==
    /\ lengths_mm = None /\ idx = 0 /\ segment_reports = <<>>
    /\ weighted_density = Zero /\ total_length = Zero
    /\ report = None /\ segment_mask = None /\ raster_ops = NoRasterOps
    /\ par_results = <<>> /\ par_report = None
    /\ picam2 = None /\ devices = <<>> /\ last_call = "none" /\ calls = 0

-----------------------------------------------------------------------------
(* Spec: a caller of the library derives the scale with compute_px_per_mm  *)
(* and then calls analyze_polyline with arbitrary arguments.               *)

Init ==
    /\ Idle
    /\ driver = "call"
    /\ use_manual_exposure = FALSE
    /\ tile_width_px = None /\ tile_width_mm = None /\ origin_px = None
    /\ px_per_mm = None /\ frame = None /\ threshold_info = None
    /\ pc = "start"
    /\ points_mm \in SeqsUpTo(PointsMMSet, MaxPoints)
    /\ points_px \in SeqsUpTo(PixelPointSet, MaxPoints)
    /\ min_density \in MinDensities
    /\ line_mask \in Masks

\* the caller's compute_px_per_mm(px_tile_width, mm_tile_width)
CallComputePxPerMm ==
    /\ pc = "start"
    /\ driver = "call"
    /\ \E pw \in TileWidthsPx, mw \in TileWidthsMM :
          /\ tile_width_px' = pw
          /\ tile_width_mm' = mw
          /\ LET r == compute_px_per_mm(pw, mw)
             IN  IF r.raised # "no"
                 THEN pc' = RaisedPc(r.raised) /\ UNCHANGED px_per_mm
                 ELSE pc' = "analyze" /\ px_per_mm' = r.value
    /\ UNCHANGED <<driver, origin_px, frame, threshold_info, argVars, loopVars,
                   report, segment_mask, raster_ops, parVars, camVars>>

Next ==
    \/ CallComputePxPerMm
    \/ AnalyzeValidate
    \/ LoopStep
    \/ AnalyzeReturn
    \/ \E i \in 0..(MaxPoints - 2) : ParEval(i)
    \/ ParJoin

Spec == Init /\ [][Next]_vars

-----------------------------------------------------------------------------
(* camera.py: class Camera.  A device is one Picamera2 object; the fields  *)
(* count the calls made on it.                                             *)

NewDevice(manual) ==
    [configured |-> TRUE,
     controls   |-> IF manual THEN "manual_exposure" ELSE "auto_exposure",
     starts |-> 1, stops |-> 0, closes |-> 0, captures |-> 0]

TheCamera == [manual |-> use_manual_exposure, picam2 |-> picam2, devices |-> devices]

\* Camera.open
Camera_open(c) ==
    IF c.picam2 = None
    THEN [c EXCEPT !.devices = Append(@, NewDevice(c.manual)),
                   !.picam2  = <<Len(c.devices) + 1>>]
    ELSE c

Camera_release_keeps_handle(c) ==
    IF c.picam2 # None
    THEN [c EXCEPT !.devices[c.picam2[1]] =
                       [@ EXCEPT !.stops = @ + 1, !.closes = @ + 1]]
    ELSE c

\* Camera.release
Camera_release(c) ==
    IF c.picam2 # None
    THEN [c EXCEPT !.devices[c.picam2[1]] =
                       [@ EXCEPT !.stops = @ + 1, !.closes = @ + 1],
                   !.picam2 = None]
    ELSE c

\* Camera.capture_frame up to picam2.capture_array("main")
Camera_capture(c) ==
    LET o == Camera_open(c)
    IN  [o EXCEPT !.devices[o.picam2[1]].captures = @ + 1]

\* Camera.__enter__ and Camera.__exit__
Camera_enter(c) == Camera_open(c)
Camera_exit(c) == Camera_release(c)

SetCamera(c) ==
    /\ picam2' = c.picam2
    /\ devices' = c.devices
    /\ UNCHANGED use_manual_exposure

\* cv2.cvtColor(_, COLOR_RGB2BGR)
cvtColor_RGB2BGR(img) == [p \in DOMAIN img |-> <<img[p][3], img[p][2], img[p][1]>>]

Black == <<0, 0, 0>>
White == <<255, 255, 255>>
\* RGB frames the sensor can deliver: a bright stroke on the bottom row of a
\* dark tile, a dark stroke on a bright tile, a red stroke on a dark tile,
\* and a tile whose left half is bright
FrameLightLine == [p \in PixelsOf(RasterShape) |-> IF p[2] = 4 THEN White ELSE Black]
FrameDarkLine  == [p \in PixelsOf(RasterShape) |-> IF p[2] = 4 THEN Black ELSE White]
FrameRedLine   == [p \in PixelsOf(RasterShape) |-> IF p[2] = 4 THEN <<255, 0, 0>> ELSE Black]
FrameHalf      == [p \in PixelsOf(RasterShape) |-> IF p[1] < 2 THEN White ELSE Black]
SensorFrames == {FrameLightLine, FrameDarkLine, FrameRedLine, FrameHalf}

-----------------------------------------------------------------------------
(* A free client of one Camera object: any sequence of calls, none of      *)
(* which fails in the device.                                              *)

ClientCall(c, name) ==
    /\ driver = "client"
    /\ calls < MaxCalls
    /\ calls' = calls + 1
    /\ SetCamera(c)
    /\ last_call' = name
    /\ UNCHANGED <<pc, driver, tile_width_px, tile_width_mm, origin_px,
                   px_per_mm, threshold_info, argVars, loopVars, report,
                   segment_mask, raster_ops, parVars>>

ClientOpen == ClientCall(Camera_open(TheCamera), "open") /\ UNCHANGED frame

ClientCaptureFrame ==
    /\ ClientCall(Camera_capture(TheCamera), "capture_frame")
    /\ \E rgb \in SensorFrames : frame' = cvtColor_RGB2BGR(rgb)

ClientRelease == ClientCall(Camera_release(TheCamera), "release") /\ UNCHANGED frame

ClientEnter == ClientCall(Camera_enter(TheCamera), "__enter__") /\ UNCHANGED frame

ClientExit == ClientCall(Camera_exit(TheCamera), "__exit__") /\ UNCHANGED frame

-----------------------------------------------------------------------------
(* main.py: main()                                                         *)

MainTileWidthsMM == {Rat(-1), Zero, Rat(2), Rat(4)}
Origins == {<<0, 4>>}

MainStep(from, to) ==
    /\ driver = "main"
    /\ pc = from
    /\ pc' = to

\* px_per_mm = compute_px_per_mm(args.tile_width_px, args.tile_width_mm)
MainComputePxPerMm ==
    /\ driver = "main"
    /\ pc = "main_start"
    /\ LET r == compute_px_per_mm(tile_width_px, tile_width_mm)
       IN  IF r.raised # "no"
           THEN pc' = RaisedPc(r.raised) /\ UNCHANGED px_per_mm
           ELSE pc' = "mm_to_px" /\ px_per_mm' = r.value
    /\ UNCHANGED <<driver, tile_width_px, tile_width_mm, origin_px, frame,
                   threshold_info, argVars, loopVars, report, segment_mask,
                   raster_ops, parVars, camVars>>

\* points_px = mm_to_px(points_mm, px_per_mm, origin_px)
MainMmToPx ==
    /\ MainStep("mm_to_px", "camera_enter")
    /\ points_px' = mm_to_px(points_mm, px_per_mm, origin_px)
    /\ UNCHANGED <<mainVars, points_mm, min_density, line_mask, loopVars,
                   report, segment_mask, raster_ops, parVars, camVars>>

\* with Camera() as camera: the constructor and __enter__
MainCameraEnter ==
    /\ MainStep("camera_enter", "capture")
    /\ SetCamera(Camera_enter(TheCamera))
    /\ last_call' = "__enter__"
    /\ calls' = calls + 1
    /\ UNCHANGED <<mainVars, argVars, loopVars, report, segment_mask,
                   raster_ops, parVars>>

\* frame = camera.capture_frame(); capture_array may deliver no frame, and
\* the RuntimeError then leaves the with block through __exit__
MainCaptureFrame ==
    /\ driver = "main"
    /\ pc = "capture"
    /\ SetCamera(Camera_capture(TheCamera))
    /\ last_call' = "capture_frame"
    /\ calls' = calls + 1
    /\ \/ \E rgb \in SensorFrames :
             frame' = cvtColor_RGB2BGR(rgb) /\ pc' = "camera_exit"
       \/ frame' = frame /\ pc' = "camera_exit_raising"
    /\ UNCHANGED <<driver, tile_width_px, tile_width_mm, origin_px, px_per_mm,
                   threshold_info, argVars, loopVars, report, segment_mask,
                   raster_ops, parVars>>

\* the end of the with block: __exit__
MainCameraExit ==
    /\ driver = "main"
    /\ pc \in {"camera_exit", "camera_exit_raising"}
    /\ pc' = IF pc = "camera_exit" THEN "binarize" ELSE "RuntimeError"
    /\ SetCamera(Camera_exit(TheCamera))
    /\ last_call' = "__exit__"
    /\ calls' = calls + 1
    /\ UNCHANGED <<mainVars, argVars, loopVars, report, segment_mask,
                   raster_ops, parVars>>

\* line_mask, threshold_info = binarize_line(frame)
MainBinarize ==
    /\ MainStep("binarize", "analyze")
    /\ line_mask' = binarize_line(frame).line_mask
    /\ threshold_info' = binarize_line(frame).result
    /\ raster_ops' = [raster_ops EXCEPT !.binarize = @ + 1]
    /\ UNCHANGED <<driver, tile_width_px, tile_width_mm, origin_px, px_per_mm,
                   frame, points_mm, points_px, min_density, loopVars, report,
                   segment_mask, parVars, camVars>>

\* the threshold and the report are printed (and saved with --json-output)
MainPrintReport ==
    /\ MainStep("returned", "main_done")
    /\ UNCHANGED <<mainVars, argVars, loopVars, report, segment_mask,
                   raster_ops, parVars, camVars>>

-----------------------------------------------------------------------------
(* SpecMain: either a run of main() or a free client of a Camera object.   *)

InitMain ==
    /\ Idle
    /\ px_per_mm = None /\ frame = None /\ threshold_info = None
    /\ points_px = None /\ line_mask = None
    /\ \/ /\ driver = "main"
          /\ pc = "main_start"
          /\ use_manual_exposure = FALSE
          /\ origin_px \in Origins
          /\ tile_width_px \in TileWidthsPx
          /\ tile_width_mm \in MainTileWidthsMM
          /\ points_mm \in SeqsUpTo(PointsMMSet, MaxPoints)
          /\ min_density \in MinDensities
       \/ /\ driver = "client"
          /\ pc = "client"
          /\ use_manual_exposure \in BOOLEAN
          /\ origin_px = None /\ tile_width_px = None /\ tile_width_mm = None
          /\ points_mm = None /\ min_density = None

NextMain ==
    \/ MainComputePxPerMm
    \/ MainMmToPx
    \/ MainCameraEnter
    \/ MainCaptureFrame
    \/ MainCameraExit
    \/ MainBinarize
    \/ AnalyzeValidate
    \/ LoopStep
    \/ AnalyzeReturn
    \/ MainPrintReport
    \/ ClientOpen
    \/ ClientCaptureFrame
    \/ ClientRelease
    \/ ClientEnter
    \/ ClientExit

SpecMain == InitMain /\ [][NextMain]_vars

-----------------------------------------------------------------------------
(* SpecGeo: mm_to_px applied to two points.                                *)

GeoPoints == (0..MaxCoordMM) \X (0..MaxCoordMM)
GeoScales == {<<1, 4>>, <<1, 2>>, <<1, 1>>, <<3, 2>>, <<2, 1>>}
GeoOrigins == {<<0, 0>>, <<1, 7>>}

InitGeo ==
    /\ Idle
    /\ use_manual_exposure = FALSE
    /\ tile_width_px = None /\ tile_width_mm = None
    /\ frame = None /\ threshold_info = None
    /\ driver = "geo"
    /\ pc = "geo_start"
    /\ points_mm \in [1..2 -> GeoPoints]
    /\ px_per_mm \in GeoScales
    /\ origin_px \in GeoOrigins
    /\ points_px = None /\ min_density = None /\ line_mask = None

GeoMmToPx ==
    /\ driver = "geo"
    /\ pc = "geo_start"
    /\ pc' = "geo_done"
    /\ points_px' = mm_to_px(points_mm, px_per_mm, origin_px)
    /\ UNCHANGED <<mainVars, points_mm, min_density, line_mask, loopVars,
                   report, segment_mask, raster_ops, parVars, camVars>>

NextGeo == GeoMmToPx

SpecGeo == InitGeo /\ [][NextGeo]_vars

-----------------------------------------------------------------------------
(* SpecBin: binarize_line applied to two-level images of BinPixels pixels. *)

\* the bright level (gray 255) and the dark level (pure blue, gray 29)
BinBright == <<255, 255, 255>>
BinDark   == <<255, 0, 0>>

InitBin ==
    /\ Idle
    /\ use_manual_exposure = FALSE
    /\ tile_width_px = None /\ tile_width_mm = None /\ origin_px = None
    /\ px_per_mm = None /\ threshold_info = None
    /\ driver = "bin"
    /\ pc = "bin_start"
    /\ frame \in [PixelsOf(<<1, BinPixels>>) -> {BinBright, BinDark}]
    /\ points_mm = None /\ points_px = None /\ min_density = None
    /\ line_mask = None

BinarizeCall ==
    /\ driver = "bin"
    /\ pc = "bin_start"
    /\ pc' = "bin_done"
    /\ line_mask' = binarize_line(frame).line_mask
    /\ threshold_info' = binarize_line(frame).result
    /\ raster_ops' = [raster_ops EXCEPT !.binarize = @ + 1]
    /\ UNCHANGED <<driver, tile_width_px, tile_width_mm, origin_px, px_per_mm,
                   frame, points_mm, points_px, min_density, loopVars, report,
                   segment_mask, parVars, camVars>>

NextBin == BinarizeCall

SpecBin == InitBin /\ [][NextBin]_vars

-----------------------------------------------------------------------------
(* Properties of analyze_polyline (checked under Spec).                    *)

Returned == pc \in {"returned", "joined"}

Segs == report.segments

\* the claims' own arithmetic on sequences of segment reports
RECURSIVE SumPixelsFinite(_, _)
SumPixelsFinite(reports, k) ==
    IF k = 0 THEN 0
    ELSE SumPixelsFinite(reports, k - 1) +
         (IF IsFinite(reports[k].density) THEN reports[k].pixels_on_line ELSE 0)

RECURSIVE SumLengthFinite(_, _)
SumLengthFinite(reports, k) ==
    IF k = 0 THEN Zero
    ELSE RatAdd(SumLengthFinite(reports, k - 1),
                IF IsFinite(reports[k].density) THEN reports[k].length_mm ELSE Zero)

RECURSIVE SumDensityTimesLength(_, _)
SumDensityTimesLength(reports, k) ==
    IF k = 0 THEN Zero
    ELSE RatAdd(SumDensityTimesLength(reports, k - 1),
                IF IsFinite(reports[k].density)
                THEN RatMul(reports[k].density, reports[k].length_mm) ELSE Zero)

\* C1: the verdict is "fail" exactly when some segment of the report has a
\* finite density strictly below min_density, and "pass" otherwise; a
\* segment of positive length with no pixel on the line fails the polyline
\* for every min_density > 0.
C1_VerdictFailIffFiniteBelow ==
    Returned =>
        /\ report.verdict \in {"pass", "fail"}
        /\ (report.verdict = "fail") <=>
              \E i \in 1..Len(Segs) :
                 IsFinite(Segs[i].density) /\ RatLT(Segs[i].density, min_density)
        /\ (/\ RatLT(Zero, min_density)
            /\ \E i \in 1..Len(Segs) :
                  Segs[i].pixels_on_line = 0 /\ RatLT(Zero, Segs[i].length_mm))
           => report.verdict = "fail"

\* a failing polyline of two segments: one without ink, the other passing
C1_Witness ==
    /\ pc = "returned"
    /\ Len(Segs) = 2
    /\ report.verdict = "fail"
    /\ \E i, j \in 1..2 :
          /\ Segs[i].pixels_on_line = 0 /\ RatLT(Zero, Segs[i].length_mm)
          /\ IsFinite(Segs[j].density) /\ RatGE(Segs[j].density, min_density)

\* C2: average_density is the length-weighted mean of the finite densities,
\* which is the sum of their pixels over the sum of their lengths, and it is
\* 0 when no segment has a finite density.
C2_AverageIsLengthWeightedMean ==
    Returned =>
        LET n     == Len(Segs)
            total == SumLengthFinite(Segs, n)
        IN  IF \E i \in 1..n : IsFinite(Segs[i].density)
            THEN /\ RatLT(Zero, total)
                 /\ report.average_density =
                       RatDiv(SumDensityTimesLength(Segs, n), total)
                 /\ report.average_density =
                       RatDiv(Rat(SumPixelsFinite(Segs, n)), total)
            ELSE report.average_density = Zero

\* two measured segments of different lengths and different densities
C2_Witness ==
    /\ pc = "returned"
    /\ Len(Segs) = 2
    /\ IsFinite(Segs[1].density) /\ IsFinite(Segs[2].density)
    /\ Segs[1].length_mm # Segs[2].length_mm
    /\ Segs[1].density # Segs[2].density
    /\ report.average_density # Zero

ZeroLengthStep ==
    /\ pc = "loop"
    /\ idx' = idx + 1
    /\ lengths_mm[idx + 1] = Zero

\* C3: in a report a density is finite exactly when length_mm > 0; a
\* zero-length segment has density +inf and pixels_on_line = 0 whatever the
\* mask holds, its loop iteration leaves the weighted sum and the total
\* length alone, and a "fail" verdict always rests on a segment of positive
\* length.
C3_ZeroLengthSegments ==
    /\ [](Returned =>
            /\ \A i \in 1..Len(Segs) :
                  /\ IsFinite(Segs[i].density) <=> RatLT(Zero, Segs[i].length_mm)
                  /\ Segs[i].length_mm = Zero =>
                        Segs[i].density = Inf /\ Segs[i].pixels_on_line = 0
            /\ report.verdict = "fail" =>
                  \E i \in 1..Len(Segs) :
                     /\ RatLT(Zero, Segs[i].length_mm)
                     /\ RatLT(Segs[i].density, min_density))
    /\ [][ZeroLengthStep =>
            /\ weighted_density' = weighted_density
            /\ total_length' = total_length
            /\ raster_ops' = raster_ops]_vars

\* a zero-length segment whose pixel endpoints span inked pixels, next to a
\* measured segment, in a passing report
C3_Witness ==
    /\ pc = "returned"
    /\ Len(Segs) = 2
    /\ report.verdict = "pass"
    /\ \E i, j \in 1..2 :
          /\ Segs[i].length_mm = Zero
          /\ Segs[i].start_px # Segs[i].end_px
          /\ \A p \in LinePixels(Segs[i].start_px, Segs[i].end_px) : line_mask[p] # 0
          /\ IsFinite(Segs[j].density)

InvalidPoints == Len(points_mm) # Len(points_px) \/ Len(points_px) < 2

\* C4: analyze_polyline raises, and produces no report at all, exactly when
\* the point sequences differ in length or hold fewer than two points;
\* otherwise it returns a report with every segment.  compute_px_per_mm
\* raises exactly when mm_tile_width <= 0.
C4_InvalidInputsRaise ==
    /\ pc # "start" =>
          /\ (pc = "invalid_scale") <=> RatLE(tile_width_mm, Zero)
          /\ pc = "invalid_scale" => px_per_mm = None /\ report = None
          /\ pc # "invalid_scale" =>
                px_per_mm = RatDiv(tile_width_px, tile_width_mm)
    /\ pc \in {"loop", "returned", "joined", "invalid"} =>
          (pc = "invalid") <=> InvalidPoints
    /\ pc = "invalid" => report = None /\ segment_reports = <<>>
    /\ Returned =>
          /\ report # None
          /\ Len(report.segments) = Len(points_px) - 1

\* three millimetre points against two pixel points: raised, no report
C4_Witness ==
    /\ pc = "invalid"
    /\ Len(points_mm) = 3
    /\ Len(points_px) = 2
    /\ report = None

\* C8: evaluating the segments in any order and aggregating once all the
\* results exist gives the report of the sequential loop.
C8_AnyOrderSameReport ==
    pc = "joined" => par_report = report

\* two measured segments, the later one evaluated first
C8_Witness ==
    /\ pc = "joined"
    /\ Len(Segs) = 2
    /\ IsFinite(Segs[1].density) /\ IsFinite(Segs[2].density)
    /\ Segs[1].pixels_on_line # Segs[2].pixels_on_line
    /\ segment_mask = draw_segment_mask(ShapeOf(line_mask), points_px[1], points_px[2])
    /\ segment_mask # draw_segment_mask(ShapeOf(line_mask), points_px[2], points_px[3])

\* C9: n points give n - 1 reports in polyline order; report i carries its
\* index, its pixel end points and the Euclidean length of its millimetre
\* segment; for a positive length, pixels_on_line counts the pixels set both
\* on the one-pixel line and in the ink mask, and density is pixels_on_line
\* over length_mm; the line holds both end points and one pixel per step
\* along its longer axis.
C9_SegmentReports ==
    Returned =>
        /\ Len(Segs) = Len(points_px) - 1
        /\ \A i \in 1..Len(Segs) :
              LET dx == points_mm[i + 1][1] - points_mm[i][1]
                  dy == points_mm[i + 1][2] - points_mm[i][2]
                  L  == Segs[i].length_mm
              IN  /\ Segs[i].index = i - 1
                  /\ Segs[i].start_px = points_px[i]
                  /\ Segs[i].end_px = points_px[i + 1]
                  /\ L[2] = 1 /\ L[1] >= 0 /\ L[1] * L[1] = dx * dx + dy * dy
                  /\ L[1] > 0 =>
                        /\ {points_px[i], points_px[i + 1]} \subseteq
                              LinePixels(points_px[i], points_px[i + 1])
                        /\ Cardinality(LinePixels(points_px[i], points_px[i + 1])) =
                              1 + (LET ax == Abs(points_px[i + 1][1] - points_px[i][1])
                                       ay == Abs(points_px[i + 1][2] - points_px[i][2])
                                   IN  IF ax > ay THEN ax ELSE ay)
                        /\ Segs[i].pixels_on_line =
                              Cardinality({p \in LinePixels(points_px[i], points_px[i + 1]) :
                                              p \in DOMAIN line_mask /\ line_mask[p] # 0})
                        /\ Segs[i].density[1] * L[1] =
                              Segs[i].pixels_on_line * Segs[i].density[2]
                        /\ Segs[i].density[2] > 0

\* 3 inked pixels of 4 along a 3 mm segment: density 1, which passes
C9_Witness ==
    /\ pc = "returned"
    /\ Len(Segs) >= 1
    /\ Segs[1].length_mm = Rat(3)
    /\ Cardinality(LinePixels(Segs[1].start_px, Segs[1].end_px)) = 4
    /\ Segs[1].pixels_on_line = 3
    /\ Segs[1].density = Rat(1)
    /\ Len(Segs) = 1 => report.verdict = "pass"

-----------------------------------------------------------------------------
(* Properties of main() and of the Camera object (checked under SpecMain). *)

InvalidInputError == pc \in {"invalid", "invalid_scale"}

\* C5 as stated: a run that ends in an invalid-input error has done no
\* raster work at all before the error, binarization of the frame included.
C5_NoRasterWorkBeforeInvalidInput ==
    InvalidInputError => raster_ops = NoRasterOps

InvalidMainInput ==
    \/ RatLE(tile_width_mm, Zero)
    \/ Len(points_mm) < 2

\* C5, amended: a non-positive tile width is raised as an invalid input
\* before the camera is used and before any raster work; the checks of
\* analyze_polyline are raised before any segment mask is drawn,
\* intersected or counted, but after binarize_line has processed the frame;
\* and no segment is ever rasterised on invalid input.
C5_InvalidInputBeforeSegmentRasterWork ==
    driver = "main" =>
        /\ (RatLE(tile_width_mm, Zero) /\ pc # "main_start") =>
              pc = "invalid_scale"
        /\ pc = "invalid_scale" =>
              raster_ops = NoRasterOps /\ calls = 0 /\ frame = None
        /\ pc = "invalid" =>
              /\ raster_ops = [NoRasterOps EXCEPT !.binarize = 1]
              /\ segment_reports = <<>> /\ report = None
        /\ (raster_ops.draw > 0 \/ raster_ops.bitand > 0 \/ raster_ops.count > 0) =>
              ~InvalidMainInput

\* a single point: the error comes after the frame was binarized
C5_Witness ==
    /\ driver = "main"
    /\ pc = "invalid"
    /\ Len(points_mm) = 1
    /\ raster_ops.binarize = 1
    /\ raster_ops.draw = 0

OpeningCalls == {"open", "capture_frame", "__enter__"}
ReleasingCalls == {"release", "__exit__"}

\* the device behind the handle is configured, started and not yet stopped
Held ==
    /\ picam2 # None
    /\ picam2[1] \in 1..Len(devices)
    /\ devices[picam2[1]].configured
    /\ devices[picam2[1]].starts = 1
    /\ devices[picam2[1]].stops = 0
    /\ devices[picam2[1]].closes = 0

CameraCall == calls' = calls + 1

\* C10: a pipeline is held exactly when the last call on the Camera was an
\* open, capture_frame or __enter__; every device was started once, and is
\* either the one held or was stopped and closed exactly once; opening while
\* a pipeline is held creates nothing, releasing while none is held does
\* nothing; and in main the pipeline is released before binarize_line and
\* analyze_polyline run.
C10_CameraLifecycle ==
    /\ [](/\ Held <=> last_call \in OpeningCalls
          /\ picam2 = None <=> last_call \notin OpeningCalls
          /\ \A k \in 1..Len(devices) :
                /\ devices[k].configured /\ devices[k].starts = 1
                /\ IF picam2 = <<k>>
                   THEN devices[k].stops = 0 /\ devices[k].closes = 0
                   ELSE devices[k].stops = 1 /\ devices[k].closes = 1
          /\ (driver = "main" /\ pc \in {"binarize", "analyze", "loop", "invalid",
                                         "returned", "main_done"}) =>
                /\ picam2 = None
                /\ Len(devices) = 1
                /\ devices[1].stops = 1 /\ devices[1].closes = 1
                /\ raster_ops.binarize > 0 => last_call = "__exit__")
    /\ [][(CameraCall /\ picam2 # None /\ last_call' \in OpeningCalls) =>
             /\ picam2' = picam2
             /\ Len(devices') = Len(devices)
             /\ devices'[picam2[1]].starts = 1]_vars
    /\ [][(CameraCall /\ picam2 = None /\ last_call' \in ReleasingCalls) =>
             picam2' = None /\ devices' = devices]_vars
    /\ [][(CameraCall /\ picam2 # None /\ last_call' \in ReleasingCalls) =>
             /\ picam2' = None
             /\ devices'[picam2[1]].stops = 1
             /\ devices'[picam2[1]].closes = 1]_vars

\* a second pipeline, held after an earlier one was released, has captured
C10_Witness ==
    /\ driver = "client"
    /\ Len(devices) = 2
    /\ picam2 = <<2>>
    /\ devices[1].stops = 1 /\ devices[1].closes = 1
    /\ devices[2].captures > 0
    /\ last_call = "open"

-----------------------------------------------------------------------------
(* Properties of mm_to_px (checked under SpecGeo).                         *)

\* C7 as stated: after rounding, a larger y_mm gives a strictly smaller
\* pixel Y and a larger x_mm a strictly larger pixel X.
C7_StrictlyMonotone ==
    pc = "geo_done" =>
        /\ points_mm[1][1] < points_mm[2][1] => points_px[1][1] < points_px[2][1]
        /\ points_mm[1][2] < points_mm[2][2] => points_px[1][2] > points_px[2][2]

\* C7, amended: after rounding, a larger y_mm never gives a larger pixel Y
\* and a larger x_mm never gives a smaller pixel X; two distinct
\* coordinates may round to the same pixel.
C7_WeaklyMonotone ==
    pc = "geo_done" =>
        /\ Len(points_px) = Len(points_mm)
        /\ points_mm[1][1] < points_mm[2][1] => points_px[1][1] <= points_px[2][1]
        /\ points_mm[1][2] < points_mm[2][2] => points_px[1][2] >= points_px[2][2]

\* y grows and the pixel Y shrinks, while two distinct x share a pixel X
C7_Witness ==
    /\ pc = "geo_done"
    /\ points_mm[1][2] < points_mm[2][2]
    /\ points_px[1][2] > points_px[2][2]
    /\ points_mm[1][1] < points_mm[2][1]
    /\ points_px[1][1] = points_px[2][1]

-----------------------------------------------------------------------------
(* Properties of binarize_line (checked under SpecBin).                    *)

BrightPixels == {p \in DOMAIN frame : frame[p] = BinBright}
DarkPixels == {p \in DOMAIN frame : frame[p] = BinDark}
Foreground == {p \in DOMAIN line_mask : line_mask[p] = 255}

\* C6: when the bright level covers 70% of the pixels the line is "dark"
\* and the mask's foreground is the 30% minority; when it covers 30% the
\* line is "light" and the mask's foreground is the bright pixels.
C6_Polarity ==
    pc = "bin_done" =>
        /\ 10 * Cardinality(BrightPixels) = 7 * Cardinality(DOMAIN frame) =>
              /\ threshold_info.line_color = "dark"
              /\ Foreground = DarkPixels
        /\ 10 * Cardinality(BrightPixels) = 3 * Cardinality(DOMAIN frame) =>
              /\ threshold_info.line_color = "light"
              /\ Foreground = BrightPixels

====
